---- MODULE Spec2Model ----
(***************************************************************************)
(* A model of audio/data.py of fastai_audio: the spectrogram cache of      *)
(* AudioList.open, the pre-processing cache of resample_item,              *)
(* remove_silence and segment_items (get_cache / make_cache), the          *)
(* pipeline AudioLabelList._pre_process, and AudioList.__init__.           *)
(*                                                                         *)
(* Paths are sequences of components (pathlib's parts); an absolute path   *)
(* starts with the component "/", and Path('.') is the empty sequence.     *)
(* A signal is a sequence of samples (0 is a silent sample); every audio   *)
(* file is mono.  Tensors produced by the spectrogram transforms are kept  *)
(* symbolically: the record of everything the computation depended on.     *)
(***************************************************************************)
EXTENDS Integers, Sequences, FiniteSets, TLC

VARIABLES
    cfg,        \* the AudioTransformConfig object shared by the AudioLists
    selfPath,   \* self.path of the current AudioList
    xitems,     \* x.items: the items of the list
    yitems,     \* y.items: the labels
    disk,       \* audio (and other) files: path -> [sig, sr, from]; from is
                \* the content a cache file was computed from
    dirs,       \* cache directories made by make_cache
    pt,         \* spectrogram cache files: path -> [mel, from]
    ret,        \* what the last call did and returned
    prev,       \* what the open call before the last one did
    lists,      \* the paths of the AudioLists constructed so far
    steps       \* number of calls and environment changes so far

vars == <<cfg, selfPath, xitems, yitems, disk, dirs, pt, ret, prev, lists,
          steps>>

---------------------------------------------------------------------------
(* Bounds of the model *)

MaxSteps == 3
MaxLen == 3
\* number of time frames of a spectrogram (at least 2)
NFrames == 2

---------------------------------------------------------------------------
(* Values *)

\* Python's None, for the integer options
None == -1

Truthy(v) == v # None /\ v # 0

\* the element of a one-element set
The(S) == CHOOSE v \in S : TRUE

\* the contents of the audio files of the model: loud, silent, and loud
\* with a silent gap
Loud(n) == [i \in 1..n |-> 1]
Silent(n) == [i \in 1..n |-> 0]
Gap(n) == [i \in 1..n |-> IF i = 1 \/ i = n THEN 1 ELSE 0]
Signals == {Loud(n) : n \in 0..MaxLen} \cup {Silent(n) : n \in 1..MaxLen}
               \cup {Gap(n) : n \in 3..MaxLen}

\* sample rates of the input files
InputRates == {1000}

\* str(int)
StrInt(n) == IF n = None THEN "None" ELSE ToString(n)

---------------------------------------------------------------------------
(* pathlib *)

IsAbsolute(p) == Len(p) > 0 /\ p[1] = "/"

\* a / b
Join(a, b) == IF IsAbsolute(b) THEN b ELSE a \o b

RECURSIVE JoinParts(_)
JoinParts(p) ==
    IF Len(p) = 0 THEN ""
    ELSE IF Len(p) = 1 THEN p[1]
    ELSE p[1] \o "/" \o JoinParts(Tail(p))

\* str(path)
StrPath(p) ==
    IF Len(p) = 0 THEN "."
    ELSE IF IsAbsolute(p) THEN "/" \o JoinParts(Tail(p))
    ELSE JoinParts(p)

\* path.parent
Parent(p) == IF Len(p) = 0 THEN p ELSE SubSeq(p, 1, Len(p) - 1)

Exists(p) == p \in DOMAIN disk

\* AUDIO_EXTENSIONS, of audio/audio.py: extensions of the audio mime types
AUDIO_EXTENSIONS == {".wav", ".mp3"}

\* one character of str.lower(), for the capitals of the model's file names
LowerChar(ch) ==
    CASE ch = "A" -> "a" [] ch = "V" -> "v" [] ch = "W" -> "w" [] OTHER -> ch

RECURSIVE lower(_)
\* s.lower()
lower(s) ==
    IF Len(s) = 0 THEN ""
    ELSE LowerChar(SubSeq(s, 1, 1)) \o lower(SubSeq(s, 2, Len(s)))

\* s.endswith(suffix)
endswith(s, suffix) ==
    /\ Len(s) >= Len(suffix)
    /\ SubSeq(s, Len(s) - Len(suffix) + 1, Len(s)) = suffix

\* every file name accepted
HasAudioExtension_Any(p) == TRUE

\* str(p).lower().endswith(AUDIO_EXTENSIONS)
HasAudioExtension(p) ==
    \E ext \in AUDIO_EXTENSIONS : endswith(lower(StrPath(p)), ext)

---------------------------------------------------------------------------
(* Configuration *)

SpectrogramConfig ==
    [n_fft |-> 2560, ws |-> None, hop |-> 512, f_min |-> 0, f_max |-> 8000,
     pad |-> 0, n_mels |-> 128]

\* the attributes of AudioTransformConfig and their defaults
AudioTransformConfig ==
    [remove_silence |-> FALSE, use_spectro |-> TRUE, cache |-> TRUE,
     cache_dir |-> <<".cache">>, force_cache |-> FALSE, to_db_scale |-> TRUE,
     silence_padding |-> 200, top_db |-> 80, processed |-> FALSE,
     segment_size |-> None, silence_threshold |-> 20, max_to_pad |-> None,
     resample_to |-> None, standardize |-> FALSE, sg_cfg |-> SpectrogramConfig,
     mfcc |-> FALSE, n_mfcc |-> 20, delta |-> FALSE]

\* the dataclass fields of the two classes: the attributes declared with a
\* type annotation
DataclassFields ==
    {"n_fft", "ws", "hop", "f_min", "f_max", "pad", "n_mels",
     "remove_silence", "use_spectro", "cache", "silence_padding", "top_db",
     "segment_size", "silence_threshold", "max_to_pad", "resample_to",
     "standardize", "mfcc", "n_mfcc", "delta"}

\* dataclasses.asdict(c): the dataclass fields only
asdict(c) == [f \in (DOMAIN c) \cap DataclassFields |-> c[f]]

\* hashlib.md5(s).hexdigest(): a digest of s, taken to be free of collisions
md5(s) == "md5(" \o s \o ")"

RECURSIVE JoinStr(_)
\* "".join(strs)
JoinStr(strs) == IF Len(strs) = 0 THEN "" ELSE strs[1] \o JoinStr(Tail(strs))

---------------------------------------------------------------------------
(* Tensors *)

\* tensor.squeeze(): drops every dimension of size 1
Squeeze(shape) == SelectSeq(shape, LAMBDA d : d # 1)

\* PadTrim(max_len)(signal): cut, or fill with zeros, to max_len samples
PadTrim(sig, max_len) ==
    [i \in 1..max_len |-> IF i <= Len(sig) THEN sig[i] ELSE 0]

\* standardize(mel), of audio/transform.py: one more application
standardize(mel) == [mel EXCEPT !.nstd = @ + 1]

\* lines 183-191: the tensor open computes from the (padded) signal
Spectrogram(c, signal, samplerate) ==
    LET sg == asdict(c.sg_cfg)
        raw == IF c.mfcc
               THEN [op |-> "MFCC", sr |-> samplerate, n_mfcc |-> c.n_mfcc,
                     sg |-> sg, sig |-> signal, db |-> FALSE, top_db |-> None,
                     nstd |-> 0, delta |-> FALSE,
                     shape |-> <<1, c.n_mfcc, NFrames>>]
               ELSE [op |-> "MelSpectrogram", sr |-> None, n_mfcc |-> None,
                     sg |-> sg, sig |-> signal, db |-> c.to_db_scale,
                     top_db |-> IF c.to_db_scale THEN c.top_db ELSE None,
                     nstd |-> 0, delta |-> FALSE,
                     shape |-> <<1, c.sg_cfg.n_mels, NFrames>>]
        sq == Squeeze(raw.shape)
        permuted == [raw EXCEPT !.shape = <<sq[2], sq[1]>>]
        std == IF c.standardize THEN standardize(permuted) ELSE permuted
    IN  [std EXCEPT !.delta = c.delta, !.shape = <<3>> \o std.shape]

---------------------------------------------------------------------------
(* AudioList.open *)

NoImage == <<>>

\* where a file comes from: the content it was computed from and the text
\* that was hashed for its name; an input file comes from nowhere
Origin(sig, key) == [sig |-> sig, key |-> key]
NoOrigin == Origin(<<>>, "")
NoTensor == [op |-> "None"]

OpenRaise(item, p, what) ==
    [pt |-> pt, dirs |-> dirs,
     ret |-> [op |-> "open", item |-> item, p |-> p, raised |-> what,
              hit |-> FALSE, loaded |-> FALSE, wrote |-> FALSE,
              image |-> NoImage, spectro |-> NoTensor, sig |-> <<>>, sr |-> None,
              max_to_pad |-> None, key |-> "", src |-> <<>>, from |-> NoOrigin,
              cfg |-> cfg, selfPath |-> selfPath]]

\* lines 171-174: the stored tensor is loaded and returned
OpenCached(item, p, image_path, key) ==
    LET stored == pt[image_path].mel
        mel == [stored EXCEPT !.shape = Squeeze(stored.shape)]
        out == IF cfg.standardize THEN standardize(mel) ELSE mel
    IN  [pt |-> pt, dirs |-> dirs,
         ret |-> [op |-> "open", item |-> item, p |-> p, raised |-> "",
                  hit |-> TRUE, loaded |-> FALSE, wrote |-> FALSE,
                  image |-> image_path, spectro |-> out, sig |-> <<>>,
                  sr |-> None, max_to_pad |-> cfg.max_to_pad,
                  key |-> key, src |-> disk[p].sig,
                  from |-> pt[image_path].from,
                  cfg |-> cfg, selfPath |-> selfPath]]

\* lines 176-196: the audio is loaded and the spectrogram computed and stored
OpenCompute(item, p, image_path, key) ==
    LET samplerate == disk[p].sr
        signal == IF Truthy(cfg.max_to_pad)
                  THEN PadTrim(disk[p].sig, (cfg.max_to_pad * samplerate) \div 1000)
                  ELSE disk[p].sig
        mel == IF cfg.use_spectro THEN Spectrogram(cfg, signal, samplerate)
               ELSE NoTensor
        save == cfg.use_spectro /\ cfg.cache
    IN  [pt |-> IF save
                THEN [k \in DOMAIN pt \cup {image_path} |->
                        IF k = image_path
                        THEN [mel |-> mel, from |-> Origin(disk[p].sig, key)]
                        ELSE pt[k]]
                ELSE pt,
         dirs |-> IF save THEN dirs \cup {Parent(image_path)} ELSE dirs,
         ret |-> [op |-> "open", item |-> item, p |-> p, raised |-> "",
                  hit |-> FALSE, loaded |-> TRUE, wrote |-> save,
                  image |-> IF cfg.use_spectro THEN image_path ELSE NoImage,
                  spectro |-> mel, sig |-> signal, sr |-> samplerate,
                  max_to_pad |-> None, key |-> key,
                  src |-> disk[p].sig, from |-> Origin(disk[p].sig, key),
                  cfg |-> cfg, selfPath |-> selfPath]]

\* force_cache ignored
ServedFromCache_Forced(c, image_path) ==
    c.use_spectro /\ c.cache /\ image_path \in DOMAIN pt

\* lines 167 and 171: the stored tensor is to be returned
ServedFromCache(c, image_path) ==
    c.use_spectro /\ c.cache /\ ~c.force_cache /\ image_path \in DOMAIN pt

\* AudioList.open(item)
AudioList_open(item) ==
    LET p == IF Exists(item) THEN item ELSE Join(selfPath, item)
        cache_dir == Join(selfPath, cfg.cache_dir)
        key == ToString(asdict(cfg)) \o ToString(asdict(cfg.sg_cfg))
                    \o StrPath(p)
        s == md5(key)
        image_path == Join(cache_dir, <<s \o ".pt">>)
    IN  IF ~Exists(p) THEN OpenRaise(item, p, "FileNotFoundError")
        ELSE IF ~HasAudioExtension(p) THEN OpenRaise(item, p, "Invalid audio file")
        ELSE IF ServedFromCache(cfg, image_path)
             THEN OpenCached(item, p, image_path, key)
        ELSE OpenCompute(item, p, image_path, key)

\* AudioList.get(i)
AudioList_get(i) ==
    LET item == xitems[i]
    IN  IF item.kind = "AudioItem"
        THEN [pt |-> pt, dirs |-> dirs,
              ret |-> [op |-> "get", item |-> item, raised |-> "",
                       loaded |-> FALSE, opened |-> FALSE]]
        ELSE IF item.kind = "path"
        THEN LET r == AudioList_open(Join(selfPath, item.p))
             IN  [r EXCEPT !.ret = [op |-> "get", item |-> item,
                                    raised |-> r.ret.raised,
                                    loaded |-> r.ret.loaded, opened |-> TRUE]]
        ELSE [pt |-> pt, dirs |-> dirs,
              ret |-> [op |-> "get", item |-> item,
                       raised |-> "Can't handle that type",
                       loaded |-> FALSE, opened |-> FALSE]]

---------------------------------------------------------------------------
(* The pre-processing cache: get_cache and make_cache *)

\* A tensor holding a mono signal: dim 2 is (channels, samples), as
\* torchaudio.load returns it, dim 1 is (samples), dim 0 is a scalar.
Tensor2(data) == [dim |-> 2, data |-> data]
Tensor1(data) == [dim |-> 1, data |-> data]

\* tensor.squeeze() of a (1, n) tensor: the channel dimension is dropped,
\* and so is the sample dimension when n = 1
SqueezeTensor(t) == [t EXCEPT !.dim = IF Len(t.data) = 1 THEN 0 ELSE 1]

\* len(tensor): the size of the first dimension
TensorLen(t) == IF t.dim = 2 THEN 1 ELSE Len(t.data)

\* the directory named without the hash of the parameters
Mark_NoHash(c, cache_type, hash_params) == Join(c.cache_dir, <<cache_type>>)

\* config.cache_dir / f"{cache_type}_{hash_str}"
Mark(c, cache_type, hash_params) ==
    Join(c.cache_dir, <<cache_type \o "_" \o md5(JoinStr(hash_params))>>)

\* str(i) + '.wav'
WavName(i) == ToString(i) \o ".wav"

\* the files of a directory in the order of a listing: the order of the
\* operating system's directory scan, here by index up or down
ListDir(d, mark, listing) ==
    LET present == {i \in 0..(2 * MaxLen) : Join(mark, <<WavName(i)>>) \in DOMAIN d}
        up == SelectSeq([i \in 1..(2 * MaxLen + 1) |-> i - 1],
                        LAMBDA i : i \in present)
        n == Len(up)
    IN  [k \in 1..n |->
            Join(mark, <<WavName(IF listing = "up" THEN up[k] ELSE up[n + 1 - k])>>)]

NoFiles == [found |-> FALSE, files |-> <<>>]

\* the cache never found
get_cache_Never(c, d, ds, cache_type, hash_params, listing) == NoFiles

\* get_cache(config, cache_type, hash_params): found is FALSE for None
get_cache(c, d, ds, cache_type, hash_params, listing) ==
    LET mark == Mark(c, cache_type, hash_params)
    IN  IF mark \in ds
        THEN [found |-> TRUE, files |-> ListDir(d, mark, listing)]
        ELSE NoFiles

\* make_cache(sigs, sr, config, cache_type, hash_params); src is the content
\* the signals were computed from
make_cache(sigs, sr, c, d, ds, cache_type, hash_params, src) ==
    The({
      LET kept == SelectSeq([i \in 1..Len(sigs) |-> i],
                            LAMBDA i : TensorLen(sigs[i]) >= 1)
          new == {Join(mark, <<WavName(kept[k] - 1)>>) : k \in 1..Len(kept)}
          index(f) == CHOOSE k \in 1..Len(kept) :
                          Join(mark, <<WavName(kept[k] - 1)>>) = f
      IN  [files |-> [k \in 1..Len(kept) |-> Join(mark, <<WavName(kept[k] - 1)>>)],
           dirs |-> IF Len(sigs) > 0 THEN ds \cup {mark} ELSE ds,
           disk |-> [f \in DOMAIN d \cup new |->
                      IF f \in new
                      THEN [sig |-> sigs[kept[index(f)]].data, sr |-> sr,
                            from |-> Origin(src, cache_type \o JoinStr(hash_params))]
                      ELSE d[f]]]
      : mark \in {Mark(c, cache_type, hash_params)}})

---------------------------------------------------------------------------
(* The stages: resample_item, remove_silence, segment_items *)

\* list(zip(files, [label]*len(files)))
ZipLabel(files, label) == [k \in 1..Len(files) |-> <<files[k], label>>]

\* what a stage returns and leaves on the disk
StageResult(stage, kind, item_path, label, key, raised, hit, files, d, ds) ==
    [op |-> stage, kind |-> kind, item_path |-> item_path, label |-> label,
     key |-> key,
     raised |-> raised, hit |-> hit, files |-> files,
     pairs |-> ZipLabel(files, label), disk |-> d, dirs |-> ds]

\* tfm_resample(sig, sr, sr_new), of audio/transform.py: the signal at the
\* new rate, each new sample taken from the nearest earlier sample
tfm_resample(sig, sr, sr_new) ==
    [i \in 1..((Len(sig) * sr_new) \div sr) |-> sig[((i - 1) * sr) \div sr_new + 1]]

RECURSIVE Chunks(_, _)
\* the maximal runs of loud samples of sig; run is the run being read
Chunks(sig, run) ==
    IF Len(sig) = 0 THEN (IF Len(run) > 0 THEN <<run>> ELSE <<>>)
    ELSE IF sig[1] = 0
         THEN (IF Len(run) > 0 THEN <<run>> ELSE <<>>) \o Chunks(Tail(sig), <<>>)
         ELSE Chunks(Tail(sig), Append(run, sig[1]))

\* tfm_chop_silence(sig, sr, st, sp), of audio/transform.py: the signal
\* without its silent parts, one tensor for each loud part
tfm_chop_silence(sig, sr, st, sp) ==
    LET runs == Chunks(sig, <<>>)
    IN  [k \in 1..Len(runs) |-> Tensor2(runs[k])]

\* if not os.path.exists(item_path): item_path = path/item_path
ItemPath(d, path, item_path) ==
    IF item_path \in DOMAIN d THEN item_path ELSE Join(path, item_path)

\* resample_item(item, config, path)
resample_item(item, c, path, d, ds, listing) ==
    LET item_path == ItemPath(d, path, item[1])
        label == item[2]
        sr_new == c.resample_to
        hash_params == <<StrPath(item_path), StrInt(sr_new)>>
        key == JoinStr(hash_params)
    IN  The({
        IF cached.found /\ Len(cached.files) > 0
        THEN StageResult("resample_item", "rs", item_path, label, key, "", TRUE,
                         cached.files, d, ds)
        ELSE IF item_path \notin DOMAIN d
        THEN StageResult("resample_item", "rs", item_path, label, key,
                         "load failed", FALSE, <<>>, d, ds)
        ELSE LET sig == d[item_path].sig
                 sr == d[item_path].sr
                 sigs == <<Tensor2(tfm_resample(sig, sr, sr_new))>>
             IN  The({StageResult("resample_item", "rs", item_path, label, key, "", FALSE,
                                  made.files, made.disk, made.dirs)
                      : made \in {make_cache(sigs, sr_new, c, d, ds, "rs",
                                             hash_params, sig)}})
        : cached \in {get_cache(c, d, ds, "rs", hash_params, listing)}})

\* remove_silence(item, config, path)
remove_silence(item, c, path, d, ds, listing) ==
    LET item_path == ItemPath(d, path, item[1])
        label == item[2]
        st == c.silence_threshold
        sp == c.silence_padding
        hash_params == <<StrPath(item_path), StrInt(st), StrInt(sp)>>
        key == JoinStr(hash_params)
    IN  The({
        IF cached.found /\ Len(cached.files) > 0
        THEN StageResult("remove_silence", "sh", item_path, label, key, "", TRUE,
                         cached.files, d, ds)
        ELSE IF item_path \notin DOMAIN d
        THEN StageResult("remove_silence", "sh", item_path, label, key,
                         "load failed", FALSE, <<>>, d, ds)
        ELSE LET sig == d[item_path].sig
                 sr == d[item_path].sr
                 sigs == tfm_chop_silence(sig, sr, st, sp)
             IN  The({StageResult("remove_silence", "sh", item_path, label, key, "", FALSE,
                                  made.files, made.disk, made.dirs)
                      : made \in {make_cache(sigs, sr, c, d, ds, "sh",
                                             hash_params, sig)}})
        : cached \in {get_cache(c, d, ds, "sh", hash_params, listing)}})

\* lines 107-110: the slices sig[i*segsize : min((i+1)*segsize, len(sig))]
\* for i in range(int(len(sig)/segsize) + 1)
Segments(data, segsize) ==
    LET n == Len(data)
        Min(a, b) == IF a < b THEN a ELSE b
    IN  [k \in 1..(n \div segsize + 1) |->
            Tensor1(SubSeq(data, Min((k - 1) * segsize, n) + 1,
                           Min(k * segsize, n)))]

\* segment_items(item, config, path)
segment_items(item, c, path, d, ds, listing) ==
    LET item_path == ItemPath(d, path, item[1])
        label == item[2]
    IN  IF item_path \notin DOMAIN d
        THEN StageResult("segment_items", "s", item_path, label, "", "load failed",
                         FALSE, <<>>, d, ds)
        ELSE
        LET sig == d[item_path].sig
            sr == d[item_path].sr
            segsize == (c.segment_size * sr) \div 1000
            hash_params == <<StrPath(item_path), StrInt(segsize), label>>
            key == JoinStr(hash_params)
            squeezed == SqueezeTensor(Tensor2(sig))
        IN  The({
            IF cached.found /\ Len(cached.files) > 0
            THEN StageResult("segment_items", "s", item_path, label, key, "", TRUE,
                             cached.files, d, ds)
            ELSE IF squeezed.dim = 0
            THEN StageResult("segment_items", "s", item_path, label, key,
                             "TypeError", FALSE, <<>>, d, ds)
            ELSE IF segsize = 0
            THEN StageResult("segment_items", "s", item_path, label, key,
                             "ZeroDivisionError", FALSE, <<>>, d, ds)
            ELSE The({StageResult("segment_items", "s", item_path, label, key,
                                  "", FALSE, made.files, made.disk, made.dirs)
                      : made \in {make_cache(Segments(squeezed.data, segsize),
                                             sr, c, d, ds, "s", hash_params,
                                             sig)}})
            : cached \in {get_cache(c, d, ds, "s", hash_params, listing)}})

---------------------------------------------------------------------------
(* AudioLabelList._pre_process *)

\* silence removal before resampling
StageOrder_Swapped == <<"sh", "rs", "s">>

\* the stages in the order _pre_process runs them
StageOrder == <<"rs", "sh", "s">>

\* the option that enables a stage
Enabled(c, kind) ==
    CASE kind = "rs" -> Truthy(c.resample_to)
      [] kind = "sh" -> c.remove_silence
      [] kind = "s" -> Truthy(c.segment_size)

ApplyStage(kind, item, c, path, d, ds, listing) ==
    CASE kind = "rs" -> resample_item(item, c, path, d, ds, listing)
      [] kind = "sh" -> remove_silence(item, c, path, d, ds, listing)
      [] kind = "s" -> segment_items(item, c, path, d, ds, listing)

RECURSIVE RunStage(_, _, _, _, _, _, _)
\* items = [stage(i, x.config, x.path) for i in items], then
\* items = reduce(concat, items, np.empty((0, 2))).  An item is a triple:
\* the file, the label, and the index of the original item it comes from.
RunStage(kind, items, c, path, d, ds, listing) ==
    IF Len(items) = 0
    THEN [raised |-> "", out |-> <<>>, disk |-> d, dirs |-> ds]
    ELSE The({
         IF r.raised # ""
         THEN [raised |-> r.raised, out |-> <<>>, disk |-> r.disk,
               dirs |-> r.dirs]
         ELSE The({
              [rest EXCEPT !.out =
                  IF rest.raised = ""
                  THEN [k \in 1..Len(r.pairs) |->
                          <<r.pairs[k][1], r.pairs[k][2], items[1][3]>>]
                       \o rest.out
                  ELSE <<>>]
              : rest \in {RunStage(kind, Tail(items), c, path, r.disk, r.dirs,
                                   listing)}})
         : r \in {ApplyStage(kind, <<items[1][1], items[1][2]>>, c, path, d, ds,
                             listing)}})

RECURSIVE RunStages(_, _, _, _, _, _, _, _)
\* lines 125-135: the enabled stages, one after the other
RunStages(kinds, items, c, path, d, ds, listing, log) ==
    IF Len(kinds) = 0
    THEN [raised |-> "", out |-> items, disk |-> d, dirs |-> ds, log |-> log]
    ELSE IF ~Enabled(c, kinds[1])
    THEN RunStages(Tail(kinds), items, c, path, d, ds, listing, log)
    ELSE The({
         IF r.raised # ""
         THEN [raised |-> r.raised, out |-> <<>>, disk |-> r.disk,
               dirs |-> r.dirs, log |-> log]
         ELSE RunStages(Tail(kinds), r.out, c, path, r.disk, r.dirs, listing,
                        Append(log, [stage |-> kinds[1], input |-> items,
                                     output |-> r.out]))
         : r \in {RunStage(kinds[1], items, c, path, d, ds, listing)}})

\* AudioLabelList._pre_process, on x.items = xs and y.items = ys
pre_process(c, path, xs, ys, d, ds, listing) ==
    LET unchanged == [raised |-> "", x |-> xs, y |-> ys,
                      origin |-> [i \in 1..Len(xs) |-> i],
                      disk |-> d, dirs |-> ds, log |-> <<>>]
    IN  IF Len(xs) > 0 /\ (c.remove_silence \/ Truthy(c.segment_size)
                               \/ Truthy(c.resample_to))
        THEN The({
             IF r.raised # ""
             THEN [unchanged EXCEPT !.raised = r.raised, !.disk = r.disk,
                                    !.dirs = r.dirs, !.log = r.log]
             ELSE IF Len(r.out) = 0
             THEN [unchanged EXCEPT !.raised = "ValueError", !.disk = r.disk,
                                    !.dirs = r.dirs, !.log = r.log]
             ELSE [raised |-> "",
                   x |-> [k \in 1..Len(r.out) |->
                            [kind |-> "path", p |-> r.out[k][1]]],
                   y |-> [k \in 1..Len(r.out) |-> r.out[k][2]],
                   origin |-> [k \in 1..Len(r.out) |-> r.out[k][3]],
                   disk |-> r.disk, dirs |-> r.dirs, log |-> r.log]
             : r \in {RunStages(StageOrder,
                                [i \in 1..Len(xs) |-> <<xs[i].p, ys[i], i>>],
                                c, path, d, ds, listing, <<>>)}})
        ELSE unchanged

---------------------------------------------------------------------------
(* Initial state: one AudioList constructed with the default configuration *)

ListPaths == {<<>>, <<"data">>, <<"/", "w">>}

InputFiles == {<<"a.wav">>, <<"data", "c.WAV">>}

OpenItems == {<<"a.wav">>, <<"c.WAV">>, <<"n.txt">>, <<"zz.wav">>}

Labels == {"x", "y"}

\* the values the options take in the model
OpenOptions ==
    [use_spectro |-> BOOLEAN, cache |-> BOOLEAN, force_cache |-> BOOLEAN,
     to_db_scale |-> BOOLEAN, standardize |-> BOOLEAN, mfcc |-> BOOLEAN,
     max_to_pad |-> {None, 1}]

StageOptions ==
    [resample_to |-> {None, 2000}, segment_size |-> {None, 1},
     silence_threshold |-> {20, 10}, silence_padding |-> {200, 0}]

StageItems == {<<"a.wav">>, <<"c.WAV">>}

Listings == {"up", "down"}

NoCall == [op |-> "none"]

\* AudioList.__init__(items, path, config) on the shared configuration
AudioList_init(c, path) == [c EXCEPT !.cache_dir = Join(path, c.cache_dir)]

Init ==
    /\ selfPath \in ListPaths
    /\ cfg = AudioList_init(AudioTransformConfig, selfPath)
    /\ xitems = <<[kind |-> "path", p |-> <<"a.wav">>],
                  [kind |-> "AudioItem", p |-> <<>>],
                  [kind |-> "int", p |-> <<>>]>>
    /\ yitems = <<"x", "y", "x">>
    /\ disk = [f \in InputFiles \cup {<<"n.txt">>} |->
                 [sig |-> Loud(2), sr |-> 1000, from |-> NoOrigin]]
    /\ dirs = {}
    /\ pt = <<>>
    /\ ret = NoCall
    /\ prev = NoCall
    /\ lists = {selfPath}
    /\ steps = 0

---------------------------------------------------------------------------
(* Calls and changes of the environment *)

Step == steps < MaxSteps /\ steps' = steps + 1

\* prev keeps the last call of open or of a stage before the current one
Calls == {"open", "resample_item", "remove_silence", "segment_items"}

Open(item) ==
    /\ Step
    /\ LET r == AudioList_open(item)
       IN  /\ pt' = r.pt
           /\ dirs' = r.dirs
           /\ ret' = r.ret
    /\ prev' = IF ret.op \in Calls THEN ret ELSE prev
    /\ UNCHANGED <<cfg, selfPath, xitems, yitems, disk, lists>>

Get(i) ==
    /\ Step
    /\ LET r == AudioList_get(i)
       IN  /\ pt' = r.pt
           /\ dirs' = r.dirs
           /\ ret' = r.ret
    /\ prev' = IF ret.op \in Calls THEN ret ELSE prev
    /\ UNCHANGED <<cfg, selfPath, xitems, yitems, disk, lists>>

\* a new AudioList on the same configuration object (the shared default,
\* or the copy made through copy_new)
Construct(path) ==
    /\ Step
    /\ cfg' = AudioList_init(cfg, path)
    /\ selfPath' = path
    /\ lists' = lists \cup {path}
    /\ ret' = [op |-> "init", path |-> path]
    /\ prev' = IF ret.op \in Calls THEN ret ELSE prev
    /\ UNCHANGED <<xitems, yitems, disk, dirs, pt>>

\* the caller sets an option of the configuration
SetOption(f, v) ==
    /\ Step
    /\ v # cfg[f]
    /\ cfg' = [cfg EXCEPT ![f] = v]
    /\ ret' = [op |-> "set", f |-> f]
    /\ prev' = IF ret.op \in Calls THEN ret ELSE prev
    /\ UNCHANGED <<selfPath, xitems, yitems, disk, dirs, pt, lists>>

\* the content of an input file changes
WriteFile(f, s) ==
    /\ Step
    /\ f \in DOMAIN disk
    /\ disk[f].sig # s
    /\ disk' = [disk EXCEPT ![f].sig = s]
    /\ ret' = [op |-> "write", f |-> f]
    /\ prev' = IF ret.op \in Calls THEN ret ELSE prev
    /\ UNCHANGED <<cfg, selfPath, xitems, yitems, dirs, pt, lists>>

\* a stage called on one item: what it returned, with the configuration
\* and the content of the item at the call, the contents the returned files
\* were computed from and the files it wrote
StageCall(r) ==
    /\ Step
    /\ disk' = r.disk
    /\ dirs' = r.dirs
    /\ ret' = [op |-> r.op, item_path |-> r.item_path, label |-> r.label,
               key |-> r.kind \o r.key, raised |-> r.raised, hit |-> r.hit,
               files |-> r.files, pairs |-> r.pairs,
               cfg |-> cfg, selfPath |-> selfPath,
               src |-> IF r.item_path \in DOMAIN disk
                       THEN disk[r.item_path].sig ELSE <<>>,
               sr |-> IF r.item_path \in DOMAIN disk
                      THEN disk[r.item_path].sr ELSE None,
               froms |-> {r.disk[r.files[k]].from : k \in 1..Len(r.files)},
               wrote |-> {f \in DOMAIN r.disk :
                            f \notin DOMAIN disk \/ r.disk[f] # disk[f]}]
    /\ prev' = IF ret.op \in Calls THEN ret ELSE prev
    /\ UNCHANGED <<cfg, selfPath, xitems, yitems, pt, lists>>

ResampleItem(item, listing) ==
    /\ Truthy(cfg.resample_to)
    /\ \E r \in {resample_item(item, cfg, selfPath, disk, dirs, listing)} :
          StageCall(r)

RemoveSilence(item, listing) ==
    /\ cfg.silence_threshold >= 0
    /\ \E r \in {remove_silence(item, cfg, selfPath, disk, dirs, listing)} :
          StageCall(r)

SegmentItems(item, listing) ==
    /\ Truthy(cfg.segment_size)
    /\ \E r \in {segment_items(item, cfg, selfPath, disk, dirs, listing)} :
          StageCall(r)

StageNext ==
    \/ \E item \in StageItems \X Labels : \E l \in Listings : ResampleItem(item, l)
    \/ \E item \in StageItems \X Labels : \E l \in Listings : RemoveSilence(item, l)
    \/ \E item \in StageItems \X Labels : \E l \in Listings : SegmentItems(item, l)
    \/ \E f \in DOMAIN StageOptions : \E v \in StageOptions[f] : SetOption(f, v)
    \/ \E s \in Signals : WriteFile(<<"a.wav">>, s)

SpecStage == Init /\ [][StageNext]_vars

\* AudioLabelList.process: _pre_process on the list and its labels
PreProcess(listing) ==
    /\ Step
    /\ \E r \in {pre_process(cfg, selfPath, xitems, yitems, disk, dirs, listing)} :
           /\ xitems' = r.x
           /\ yitems' = r.y
           /\ disk' = r.disk
           /\ dirs' = r.dirs
           /\ ret' = [op |-> "pre_process", raised |-> r.raised, log |-> r.log,
                      x |-> xitems, y |-> yitems, origin |-> r.origin,
                      cfg |-> cfg]
    /\ prev' = IF ret.op \in Calls THEN ret ELSE prev
    /\ UNCHANGED <<cfg, selfPath, pt, lists>>

\* a labelled list of audio files and a configuration with any of the
\* stages enabled
InitPre ==
    /\ selfPath \in ListPaths
    /\ \E rs \in StageOptions.resample_to, sh \in BOOLEAN,
          seg \in StageOptions.segment_size :
          cfg = [AudioList_init(AudioTransformConfig, selfPath)
                    EXCEPT !.resample_to = rs, !.remove_silence = sh,
                           !.segment_size = seg]
    /\ \E n \in 0..2 :
          /\ xitems \in [1..n -> {[kind |-> "path", p |-> f] : f \in InputFiles}]
          /\ yitems \in [1..n -> Labels]
    /\ \E s \in Signals :
          disk = [f \in InputFiles |->
                    [sig |-> IF f = <<"a.wav">> THEN s ELSE Gap(3), sr |-> 1000,
                     from |-> NoOrigin]]
    /\ dirs = {}
    /\ pt = <<>>
    /\ ret = NoCall
    /\ prev = NoCall
    /\ lists = {selfPath}
    /\ steps = 0

PreNext == \E l \in Listings : PreProcess(l)

SpecPre == InitPre /\ [][PreNext]_vars

OpenNext ==
    \/ \E item \in OpenItems : Open(item)
    \/ \E i \in 1..3 : Get(i)
    \/ \E path \in ListPaths : Construct(path)
    \/ \E f \in DOMAIN OpenOptions : \E v \in OpenOptions[f] : SetOption(f, v)
    \/ \E s \in Signals : WriteFile(<<"a.wav">>, s)

SpecOpen == Init /\ [][OpenNext]_vars

\* open and the stages on one cache, while the content of a file changes
InitCache ==
    /\ selfPath \in ListPaths
    /\ \E rs \in StageOptions.resample_to, seg \in StageOptions.segment_size :
          cfg = [AudioList_init(AudioTransformConfig, selfPath)
                    EXCEPT !.resample_to = rs, !.segment_size = seg]
    /\ xitems = <<>>
    /\ yitems = <<>>
    /\ disk = [f \in InputFiles \cup {<<"n.txt">>} |->
                 [sig |-> Loud(2), sr |-> 1000, from |-> NoOrigin]]
    /\ dirs = {}
    /\ pt = <<>>
    /\ ret = NoCall
    /\ prev = NoCall
    /\ lists = {selfPath}
    /\ steps = 0

CacheNext ==
    \/ \E item \in OpenItems : Open(item)
    \/ \E f \in StageItems : ResampleItem(<<f, "x">>, "up")
    \/ \E f \in StageItems : RemoveSilence(<<f, "x">>, "up")
    \/ \E f \in StageItems : SegmentItems(<<f, "x">>, "up")
    \/ \E s \in Signals : WriteFile(<<"a.wav">>, s)

SpecCache == InitCache /\ [][CacheNext]_vars

---------------------------------------------------------------------------
(* Claims about AudioList.open and AudioList.__init__ *)

\* the call just made is an open that raised nothing
Opened(r) == r.op = "open" /\ r.raised = ""

\* the open call read or wrote its spectrogram cache file
UsedCacheFile(r) == Opened(r) /\ (r.hit \/ r.wrote)

\* the options that change the spectrogram open computes
SpectroOptions(c) ==
    [to_db_scale |-> c.to_db_scale, top_db |-> c.top_db, mfcc |-> c.mfcc,
     n_mfcc |-> c.n_mfcc, delta |-> c.delta, standardize |-> c.standardize,
     max_to_pad |-> c.max_to_pad, sg_cfg |-> c.sg_cfg]

\* C1: two open calls of lists with the same cache directory use the same
\* cache file if and only if the resolved input path and every option that
\* changes the spectrogram (to_db_scale among them) are the same.
C1_KeyedByConfigAndPath ==
    (UsedCacheFile(ret) /\ UsedCacheFile(prev)
        /\ Parent(ret.image) = Parent(prev.image))
    => ((ret.image = prev.image)
            <=> (ret.p = prev.p
                    /\ SpectroOptions(ret.cfg) = SpectroOptions(prev.cfg)))

\* C2: an open served from the cache returns the tensor the computing open
\* stored and returned, and after a computing open with use_spectro and
\* cache set and force_cache unset the file exists and the next open with
\* the same configuration and path is served from it.
C2_Memoized ==
    /\ (Opened(ret) /\ ret.hit) => ret.spectro = pt[ret.image].mel
    /\ (Opened(ret) /\ ~ret.hit /\ ret.cfg.use_spectro /\ ret.cfg.cache
            /\ ~ret.cfg.force_cache /\ ret.cfg = cfg /\ ret.selfPath = selfPath)
       => ret.image \in DOMAIN pt
    /\ (Opened(ret) /\ Opened(prev) /\ prev.wrote /\ ~prev.cfg.force_cache
            /\ ret.cfg = prev.cfg /\ ret.selfPath = prev.selfPath
            /\ ret.p = prev.p)
       => ret.hit

\* C4: open raises FileNotFoundError when neither the item nor path/item
\* exists and 'Invalid audio file' when the existing file has no audio
\* extension, get raises "Can't handle that type" for an item that is no
\* AudioItem, path or string; then no audio is loaded and no cache file is
\* created or changed.
C4_ErrorsRaised ==
    [][(steps' = steps + 1 /\ ret'.op \in {"open", "get"}) =>
        LET item == ret'.item
            found == IF Exists(item) THEN item ELSE Join(selfPath, item)
            quiet == ~ret'.loaded /\ pt' = pt /\ dirs' = dirs /\ disk' = disk
        IN  /\ (ret'.op = "open" /\ ~Exists(item)
                    /\ ~Exists(Join(selfPath, item)))
               => (ret'.raised = "FileNotFoundError" /\ quiet)
            /\ (ret'.op = "open" /\ Exists(found)
                    /\ \A ext \in AUDIO_EXTENSIONS :
                          ~endswith(lower(found[Len(found)]), ext))
               => (ret'.raised = "Invalid audio file" /\ quiet)
            /\ (ret'.op = "get" /\ item.kind \notin {"AudioItem", "path"})
               => (ret'.raised = "Can't handle that type" /\ quiet)
      ]_vars

C4_Witness ==
    /\ ret.op = "open"
    /\ ret.raised = "Invalid audio file"
    /\ prev.op = "open"
    /\ prev.raised = "FileNotFoundError"
    /\ DOMAIN pt # {}

\* C7: with cache unset open neither reads nor writes a cache file; with
\* cache and force_cache set it recomputes and overwrites the file and does
\* not return the stored one; with use_spectro unset it touches no cache
\* file and returns no spectrogram; an open served from the cache changes
\* no cache file.
C7_CacheOptions ==
    [][(steps' = steps + 1 /\ Opened(ret')) =>
        /\ (cfg.use_spectro /\ ~cfg.cache) => (~ret'.hit /\ pt' = pt)
        /\ (cfg.use_spectro /\ cfg.cache /\ cfg.force_cache)
           => /\ ~ret'.hit
              /\ ret'.loaded
              /\ ret'.image \in DOMAIN pt'
              /\ pt'[ret'.image].mel = ret'.spectro
              /\ pt'[ret'.image].from.sig = disk[ret'.p].sig
        /\ ~cfg.use_spectro
           => (~ret'.hit /\ pt' = pt /\ ret'.spectro = NoTensor)
        /\ ret'.hit => pt' = pt
      ]_vars

C7_Witness ==
    /\ Opened(ret)
    /\ ret.cfg.force_cache
    /\ ret.wrote
    /\ Opened(prev)
    /\ prev.wrote
    /\ prev.image = ret.image

\* C10: after constructions on one configuration object with one path,
\* config.cache_dir is path/.cache and open stores its files in the
\* directory get_cache and make_cache use.
C10_CacheDirStable ==
    lists = {selfPath}
    => /\ cfg.cache_dir = Join(selfPath, <<".cache">>)
       /\ Join(selfPath, cfg.cache_dir) = cfg.cache_dir

---------------------------------------------------------------------------
(* Claims about the cache of the stages *)

StageOps == {"resample_item", "remove_silence", "segment_items"}

Range(seq) == {seq[k] : k \in 1..Len(seq)}

\* the call just made is a stage that raised nothing
Staged(r) == r.op \in StageOps /\ r.raised = ""

\* C3 as stated: an entry is served only while the content of the file is
\* the content the entry was computed from.
C3_ServedForSameContent ==
    /\ (Opened(ret) /\ ret.hit) => ret.from.sig = ret.src
    /\ (Staged(ret) /\ ret.hit) => \A o \in ret.froms : o.sig = ret.src

\* C3 as amended: an entry is served only to a call whose hashed text (the
\* cache type and the text of the path and the parameters) is the text the
\* entry was made under.
C3_ServedForSameKey ==
    /\ (Opened(ret) /\ ret.hit) => ret.from.key = ret.key
    /\ (Staged(ret) /\ ret.hit) => \A o \in ret.froms : o.key = ret.key

C3_Witness ==
    \/ Opened(ret) /\ ret.hit /\ ret.from.sig # ret.src
    \/ Staged(ret) /\ ret.hit /\ \E o \in ret.froms : o.sig # ret.src

\* C5: a stage called again with the same item, label and configuration
\* after the call that wrote the cache returns the same (file, label) pairs
\* from the existing cache directory and writes no file.
C5_StageMemo ==
    (Staged(ret) /\ prev.op = ret.op /\ prev.raised = "" /\ ~prev.hit
        /\ prev.wrote # {} /\ prev.item_path = ret.item_path
        /\ prev.label = ret.label /\ prev.cfg = ret.cfg
        /\ prev.selfPath = ret.selfPath)
    => /\ ret.hit
       /\ Range(ret.pairs) = Range(prev.pairs)
       /\ ret.wrote = {}
       /\ \A f \in Range(ret.files) : Parent(f) \in dirs

C5_Witness ==
    /\ Staged(ret) /\ ret.hit /\ prev.op = ret.op /\ ~prev.hit
    /\ prev.item_path = ret.item_path /\ prev.label = ret.label
    /\ prev.cfg = ret.cfg
    /\ Len(ret.files) >= 2
    /\ ret.pairs # prev.pairs

RECURSIVE Concat(_, _)
\* the contents of the files, one after the other
Concat(d, files) ==
    IF Len(files) = 0 THEN <<>> ELSE d[files[1]].sig \o Concat(d, Tail(files))

\* C9: on a cache miss segment_items cuts a mono signal of L samples into
\* ceil(L/S) stored segments, S >= 1: contiguous, none empty, all of S
\* samples but the last, which has 1 to S, their concatenation the signal.
C9_SegmentsPartition ==
    (ret.op = "segment_items" /\ ~ret.hit /\ ret.raised # "load failed"
        /\ (ret.cfg.segment_size * ret.sr) \div 1000 >= 1)
    => LET L == Len(ret.src)
           S == (ret.cfg.segment_size * ret.sr) \div 1000
           n == Len(ret.files)
       IN  /\ ret.raised = ""
           /\ n = (L + S - 1) \div S
           /\ Concat(disk, ret.files) = ret.src
           /\ \A k \in 1..n :
                /\ Len(disk[ret.files[k]].sig) >= 1
                /\ Len(disk[ret.files[k]].sig) <= S
                /\ k < n => Len(disk[ret.files[k]].sig) = S
           /\ Range(ret.pairs) = {<<f, ret.label>> : f \in Range(ret.files)}

---------------------------------------------------------------------------
(* Claims about _pre_process *)

PreProcessed(r) == r.op = "pre_process"

\* the stages enabled by the configuration, in the order resampling,
\* silence removal, segmentation
EnabledInOrder(c) ==
    (IF Truthy(c.resample_to) THEN <<"rs">> ELSE <<>>)
    \o (IF c.remove_silence THEN <<"sh">> ELSE <<>>)
    \o (IF Truthy(c.segment_size) THEN <<"s">> ELSE <<>>)

Pairs(items) == [k \in 1..Len(items) |-> <<items[k][1], items[k][2]>>]

\* C6: _pre_process runs the enabled stages in the order resampling, silence
\* removal, segmentation, each on the output of the one before; a stage that
\* is not enabled is skipped; with no stage enabled or no item the lists are
\* left unchanged.
C6_StagesInOrder ==
    PreProcessed(ret) =>
        LET want == EnabledInOrder(ret.cfg)
            log == ret.log
            n == Len(log)
        IN  /\ n <= Len(want)
            /\ \A k \in 1..n : log[k].stage = want[k]
            /\ \A k \in 1..n :
                 Pairs(log[k].input) =
                    IF k = 1
                    THEN [i \in 1..Len(ret.x) |-> <<ret.x[i].p, ret.y[i]>>]
                    ELSE Pairs(log[k - 1].output)
            /\ (ret.raised = "" /\ Len(ret.x) > 0 /\ Len(want) > 0)
               => /\ n = Len(want)
                  /\ [i \in 1..Len(xitems) |-> <<xitems[i].p, yitems[i]>>]
                        = Pairs(log[n].output)
            /\ (Len(ret.x) = 0 \/ Len(want) = 0)
               => (ret.raised = "" /\ n = 0 /\ xitems = ret.x /\ yitems = ret.y)

C6_Witness ==
    /\ PreProcessed(ret)
    /\ ret.raised = ""
    /\ Len(ret.log) = 3
    /\ Len(ret.log[1].output) = 2
    /\ Len(ret.log[2].output) > Len(ret.log[2].input)
    /\ Len(ret.log[3].output) > Len(ret.log[3].input)

\* C8: on a non-empty list with any stages enabled _pre_process raises
\* nothing and leaves as many labels as items, each label the label of the
\* original item its file comes from, also when a stage leaves no file for
\* some or for all of the items.
C8_LabelsFollowItems ==
    (PreProcessed(ret) /\ Len(ret.x) > 0 /\ Len(EnabledInOrder(ret.cfg)) > 0)
    => /\ ret.raised = ""
       /\ Len(xitems) = Len(yitems)
       /\ \A i \in 1..Len(xitems) : yitems[i] = ret.y[ret.origin[i]]

====
